---- MODULE Spec2Model ----
(***************************************************************************)
(* A model of app/api/images-zip/route.js: the single-image GET handlers,  *)
(* the POST handler that builds a ZIP of many images, the two limiters it  *)
(* schedules its fetches through, and the naming of the archive entries.   *)
(*                                                                         *)
(* JavaScript strings are sequences of one-character strings, so that      *)
(* sanitize, inferExt and ensureUnique are computed character by character *)
(* as the code computes them.                                              *)
(***************************************************************************)
EXTENDS Integers, Sequences, FiniteSets, TLC

(***************************************************************************)
(* Bounds of the model                                                     *)
(***************************************************************************)
\* the longest files list a POST body carries
MaxItems == 3

(***************************************************************************)
(* Strings                                                                 *)
(***************************************************************************)
\* the element of a one-element set: { e(x) : x \in {v} } binds x to the value
\* of v, which TLC then computes once however often e uses it
The(S) == CHOOSE r \in S : TRUE

Min(a, b) == IF a < b THEN a ELSE b

Max(a, b) == IF a > b THEN a ELSE b

\* String.prototype.toLowerCase on one character
LowerChar(c) ==
  CASE c = "A" -> "a" [] c = "D" -> "d" [] c = "E" -> "e" [] c = "F" -> "f"
    [] c = "G" -> "g" [] c = "I" -> "i" [] c = "L" -> "l" [] c = "N" -> "n"
    [] c = "P" -> "p" [] c = "T" -> "t" [] c = "X" -> "x"
    [] OTHER -> c

toLowerCase(s) == [k \in 1..Len(s) |-> LowerChar(s[k])]

\* s.slice(from) with from 0-based
SliceFrom(s, from) == SubSeq(s, from + 1, Len(s))

\* s.slice(0, to) with to 0-based, exclusive
SliceTo(s, to) == SubSeq(s, 1, to)

\* s.includes(t)
includes(s, t) ==
  \E k \in 0..(Len(s) - Len(t)) : SubSeq(s, k + 1, k + Len(t)) = t

\* s.endsWith(t)
endsWith(s, t) ==
  Len(t) <= Len(s) /\ SubSeq(s, Len(s) - Len(t) + 1, Len(s)) = t

\* s.lastIndexOf(c): 0-based, -1 when c does not occur
lastIndexOf(s, c) ==
  IF \E k \in 1..Len(s) : s[k] = c
  THEN (CHOOSE k \in 1..Len(s) : s[k] = c /\ \A j \in (k+1)..Len(s) : s[j] # c) - 1
  ELSE -1

\* s.indexOf(c): 0-based, -1 when c does not occur
indexOf(s, c) ==
  IF \E k \in 1..Len(s) : s[k] = c
  THEN (CHOOSE k \in 1..Len(s) : s[k] = c /\ \A j \in 1..(k-1) : s[j] # c) - 1
  ELSE -1

Digit(d) ==
  CASE d = 0 -> "0" [] d = 1 -> "1" [] d = 2 -> "2" [] d = 3 -> "3" [] d = 4 -> "4"
    [] d = 5 -> "5" [] d = 6 -> "6" [] d = 7 -> "7" [] d = 8 -> "8" [] d = 9 -> "9"

\* String(n) of a non-negative integer, as a template literal `${n}` gives it
RECURSIVE NumStr(_)
NumStr(n) == IF n < 10 THEN <<Digit(n)>> ELSE NumStr(n \div 10) \o <<Digit(n % 10)>>

(***************************************************************************)
(* small utils (route.js 10-46)                                            *)
(***************************************************************************)
\* the characters of the class [\\/:*?"<>|\x00-\x1F]; "\t" stands for the
\* control characters, which are also whitespace for \s
IsUnsafeChar(c) == c \in {"\\", "/", ":", "*", "?", "\"", "<", ">", "|", "\t"}

IsSpaceChar(c) == c \in {" ", "\t"}

ReplaceUnsafe(s) == [k \in 1..Len(s) |-> IF IsUnsafeChar(s[k]) THEN "_" ELSE s[k]]

\* .replace(/\s+/g, " "): every run of whitespace becomes one space
RECURSIVE CollapseSpaces(_)
CollapseSpaces(s) ==
  IF s = <<>> THEN <<>>
  ELSE IF IsSpaceChar(Head(s))
       THEN IF Len(s) > 1 /\ IsSpaceChar(s[2])
            THEN CollapseSpaces(Tail(s))
            ELSE <<" ">> \o CollapseSpaces(Tail(s))
       ELSE <<Head(s)>> \o CollapseSpaces(Tail(s))

RECURSIVE TrimLeft(_)
TrimLeft(s) == IF s # <<>> /\ IsSpaceChar(Head(s)) THEN TrimLeft(Tail(s)) ELSE s

RECURSIVE TrimRight(_)
TrimRight(s) ==
  IF s # <<>> /\ IsSpaceChar(s[Len(s)]) THEN TrimRight(SubSeq(s, 1, Len(s) - 1)) ELSE s

trim(s) == TrimRight(TrimLeft(s))

StrFile == <<"f", "i", "l", "e">>

\* sanitize: String(s || "file"), unsafe characters to "_", whitespace
\* collapsed, trimmed, "file" when nothing is left
sanitize(s) ==
  The({ IF r = <<>> THEN StrFile ELSE r :
          r \in {trim(CollapseSpaces(ReplaceUnsafe(IF s = <<>> THEN StrFile ELSE s)))} })

\* the test /\.[^.]+$/ of POST: a dot followed by at least one non-dot
\* character up to the end of the name
HasExtRe(name) ==
  \E d \in {lastIndexOf(name, ".")} : d >= 0 /\ d + 1 < Len(name)

ExtPng == <<".", "p", "n", "g">>

ExtJpg == <<".", "j", "p", "g">>

ExtJpeg == <<".", "j", "p", "e", "g">>

ExtGif == <<".", "g", "i", "f">>

ExtBmp == <<".", "b", "m", "p">>

ExtWebp == <<".", "w", "e", "b", "p">>

ExtSvg == <<".", "s", "v", "g">>

ExtAvif == <<".", "a", "v", "i", "f">>

ExtTiff == <<".", "t", "i", "f", "f">>

\* the suffixes the regular expression of inferExt accepts, lower-cased
UrlExts == {ExtPng, ExtJpg, ExtJpeg, ExtGif, ExtBmp, ExtWebp, ExtSvg, ExtAvif, ExtTiff}

\* the extensions inferExt can return
KnownExts == UrlExts

\* inferExt(contentType, url)
\* String(url).split("?")[0]
BeforeQuery(url) ==
  The({ IF q >= 0 THEN SliceTo(url, q) ELSE url : q \in {indexOf(url, "?")} })

\* the match of /\.(png|jpg|jpeg|gif|bmp|webp|svg|avif|tiff)$/i in lc, which
\* is lower-cased: m[0].toLowerCase(), or the default ".jpg"
SuffixExt(lc) ==
  IF \E e \in UrlExts : endsWith(lc, e)
  THEN CHOOSE e \in UrlExts : endsWith(lc, e)
  ELSE ExtJpg

inferExt(contentType, url) ==
  The({ CASE includes(ct, Tail(ExtPng)) -> ExtPng
          [] includes(ct, Tail(ExtJpg)) \/ includes(ct, Tail(ExtJpeg)) -> ExtJpg
          [] includes(ct, Tail(ExtGif)) -> ExtGif
          [] includes(ct, Tail(ExtBmp)) -> ExtBmp
          [] includes(ct, Tail(ExtWebp)) -> ExtWebp
          [] includes(ct, Tail(ExtSvg)) -> ExtSvg
          [] includes(ct, Tail(ExtAvif)) -> ExtAvif
          [] includes(ct, Tail(ExtTiff)) -> ExtTiff
          [] OTHER -> SuffixExt(toLowerCase(BeforeQuery(url))) :
        ct \in {toLowerCase(contentType)} })

\* the candidate ensureUnique tries with counter i (i = 1: the name itself)
Candidate(name, i) ==
  The({ IF i = 1
        THEN (IF dot > 0 THEN SliceTo(name, dot) ELSE name)
               \o (IF dot > 0 THEN SliceFrom(name, dot) ELSE <<>>)
        ELSE (IF dot > 0 THEN SliceTo(name, dot) ELSE name)
               \o <<"_">> \o NumStr(i)
               \o (IF dot > 0 THEN SliceFrom(name, dot) ELSE <<>>) :
        dot \in {lastIndexOf(name, ".")} })

\* the loop of ensureUnique from counter i on: the first candidate whose
\* lower-cased form is not in the set
RECURSIVE UniqueFrom(_, _, _)
UniqueFrom(name, usedLowerSet, i) ==
  IF toLowerCase(Candidate(name, i)) \in usedLowerSet
  THEN UniqueFrom(name, usedLowerSet, i + 1)
  ELSE Candidate(name, i)

\* ensureUnique that tries the suffix _2 first, also for a name that is free
ensureUniqueFromTwo(name, usedLowerSet) == UniqueFrom(name, usedLowerSet, 2)

\* ensureUnique(name, usedLowerSet): the name it returns; the caller adds its
\* lower-cased form to the set
ensureUnique(name, usedLowerSet) == UniqueFrom(name, usedLowerSet, 1)


(***************************************************************************)
(* The inputs of the model                                                 *)
(***************************************************************************)
NoStr == <<>>

UrlA1 == <<"h","t","t","p",":","/","/","a","/","x",".","g","i","f">>

UrlA2 == <<"h","t","t","p",":","/","/","A","/","z",".","P","N","G","?","v">>

UrlBad == <<"n","o","u","r","l">>

NameA == <<"a">>

\* a name of the form ensureUnique gives to a second "a"
NameA2 == <<"a","_","2">>

NameFailedTxt == <<"F","A","I","L","E","D",".","t","x","t">>

NameFailedLower == <<"f","a","i","l","e","d",".","t","x","t">>

CtPng == <<"i","m","a","g","e","/","p","n","g">>

\* an item of body.files: url and filename; NoStr is an absent (or empty) field
Item(u, f) == [url |-> u, filename |-> f]

\* the items a files list is drawn from: without url and name; two hosts
\* that differ in case only, one URL with a suffix and one with an upper-case
\* suffix and a query; a URL that does not parse; names with and without
\* extension, two of them equal up to case, and one that has the form of a
\* collision suffix of another
ItemSet ==
  { Item(NoStr, NoStr), Item(UrlA1, NameA), Item(UrlA2, NoStr),
    Item(UrlBad, NameFailedTxt), Item(NoStr, NameFailedLower), Item(NoStr, NameA2) }

RECURSIVE SeqsUpTo(_, _)
SeqsUpTo(S, n) ==
  IF n = 0 THEN {<<>>}
  ELSE LET shorter == SeqsUpTo(S, n - 1)
       IN shorter \cup {Append(q, x) : q \in {r \in shorter : Len(r) = n - 1}, x \in S}

\* a field of the body that is read as a number. kind: absent, null, number,
\* inf (a number too large for a double, which JSON.parse reads as Infinity),
\* nan (a string, object or array that Number() turns into NaN). A number is
\* (-1 if neg) * (hi * 2^16 + lo) / den, with lo < 2^16
JsonValue(kind, neg, hi, lo, den) ==
  [kind |-> kind, neg |-> neg, hi |-> hi, lo |-> lo, den |-> den]

Absent == JsonValue("absent", FALSE, 0, 0, 1)

JsonNull == JsonValue("null", FALSE, 0, 0, 1)

NotANumber == JsonValue("nan", FALSE, 0, 0, 1)

Infinite == JsonValue("inf", FALSE, 0, 0, 1)

\* an integer below 2^16 in absolute value
Num(n) == JsonValue("number", n < 0, 0, IF n < 0 THEN 0 - n ELSE n, 1)

\* the fraction n / d, for 0 <= n < 2^16 and d >= 1, negated when neg
Frac(neg, n, d) == JsonValue("number", neg, 0, n, d)

\* the integer hi * 2^16 + lo
Big(hi, lo) == JsonValue("number", FALSE, hi, lo, 1)

ConcurrencyInputs == {Absent, Num(0)}

PerHostInputs == {Num(1), Num(2)}

\* the bodies a POST request carries: text that is not JSON, JSON null, an
\* object without files, an object whose files is a string, an object whose
\* files is an array
Body(json, filesKind, files, c, ph) ==
  [json |-> json, filesKind |-> filesKind, files |-> files,
   concurrency |-> c, perHostConcurrency |-> ph]

BodySet ==
  { Body("unparseable", "absent", <<>>, Absent, Absent),
    Body("null", "absent", <<>>, Absent, Absent),
    Body("object", "absent", <<>>, Absent, Absent),
    Body("object", "string", <<>>, Absent, Absent) }
  \cup { Body("object", "array", fs, c, ph) :
           fs \in SeqsUpTo(ItemSet, MaxItems), c \in ConcurrencyInputs, ph \in PerHostInputs }

\* the content-type header of a successful upstream response ("" when absent)
ContentTypes == {NoStr, CtPng}

\* the way one call of fetchWithRetries for an archive item ends
FetchOutcomes ==
  {[settled |-> TRUE, ok |-> FALSE, contentType |-> NoStr]}
    \cup {[settled |-> TRUE, ok |-> TRUE, contentType |-> ct] : ct \in ContentTypes}

\* of an item whose fetchWithRetries call has not ended, or was never made
NoOutcome == [settled |-> FALSE, ok |-> FALSE, contentType |-> NoStr]


(***************************************************************************)
(* State                                                                   *)
(***************************************************************************)
VARIABLES
  req,           \* the request: method, url (GET), body (POST)
  jszip,         \* whether the first and the second import("jszip") resolve
  pc,            \* where the handler is
  response,      \* what the handler returned (status 0: nothing yet)
  limiters,      \* number of limiters POST has created
  glimit,        \* createLimiter: limit
  gActive,       \* createLimiter: active
  gQ,            \* createLimiter: q, the item indices whose job waits
  hlimit,        \* createPerHostLimiter: maxPerHost
  hActive,       \* createPerHostLimiter: active, a Map from host to count
  hQueue,        \* createPerHostLimiter: queue of {host, i}
  mq,            \* the microtask queue: promise reactions not yet run
  gph,           \* per item: how far its global-limiter job is
  hph,           \* per item: how far its per-host-limiter job is
  fetching,      \* the items whose fetchWithRetries call is in flight
  fetchCount,    \* fetchWithRetries calls made so far
  outcome,       \* per item: how its fetchWithRetries call ended
  used,          \* POST: the Set of lower-cased names handed out
  zip,           \* the JSZip object: its entries
  failures,      \* POST: the failures array
  resolvedJobs,  \* how many promises of the Promise.all have resolved
  fw,            \* the fetchWithRetries call of GET: attempt, try, timer
  strict,        \* the strict GET: fetch calls made, how the fetch ended
  stream,        \* POST: the archive generator and the writer of the output stream
  ui             \* the testimonial carousel: state, refs, props, last render

postVars ==
  <<limiters, glimit, gActive, gQ, hlimit, hActive, hQueue, mq, gph, hph,
    fetching, fetchCount, outcome, used, zip, failures, resolvedJobs>>

vars == <<req, jszip, pc, response, postVars, fw, strict, stream, ui>>

NoResponse == [status |-> 0, contentType |-> "", body |-> "none"]

Respond(status, contentType, body) ==
  [status |-> status, contentType |-> contentType, body |-> body]

\* the promise returned by the handler rejected: an exception escaped it
Rejected == [status |-> -1, contentType |-> "", body |-> "unhandled exception"]

(***************************************************************************)
(* createLimiter (route.js 125-150)                                        *)
(***************************************************************************)
Task(t, i, ok) == [t |-> t, i |-> i, ok |-> ok]

\* a limiter's state together with the microtask queue its calls append to
GState(active, q, m, ph) == [active |-> active, q |-> q, mq |-> m, ph |-> ph]

\* pump() that admits nothing
pumpIdle(G, limit) == G

\* pump() with the comparison off by one: it admits a job when the limiter is
\* already full
pumpOverAdmits(G, limit) ==
  IF G.active > limit \/ Len(G.q) = 0 THEN G
  ELSE GState(G.active + 1, Tail(G.q),
              Append(G.mq, Task("gStart", Head(G.q), TRUE)),
              [G.ph EXCEPT ![Head(G.q)] = "admitted"])

\* pump(): admit the head of q when a slot is free; fn runs in a microtask
pump(G, limit) ==
  IF G.active >= limit \/ Len(G.q) = 0 THEN G
  ELSE GState(G.active + 1, Tail(G.q),
              Append(G.mq, Task("gStart", Head(G.q), TRUE)),
              [G.ph EXCEPT ![Head(G.q)] = "admitted"])

\* the function createLimiter returns: q.push(job); pump()
globalLimiter(G, limit, i) ==
  pump(GState(G.active, Append(G.q, i), G.mq, [G.ph EXCEPT ![i] = "queued"]), limit)

\* files.map((item, idx) => globalLimiter(...)): the items are submitted in order
RECURSIVE SubmitAll(_, _, _, _)
SubmitAll(G, limit, i, n) ==
  IF i > n THEN G
  ELSE The({ SubmitAll(G1, limit, i + 1, n) : G1 \in {globalLimiter(G, limit, i)} })

(***************************************************************************)
(* createPerHostLimiter (route.js 152-183)                                 *)
(***************************************************************************)
\* active.get(host) of the Map
MapGet(m, h) == IF h \in DOMAIN m THEN m[h] ELSE 0

\* active.set(host, v)
MapSet(m, h, v) == [x \in DOMAIN m \cup {h} |-> IF x = h THEN v ELSE m[x]]

HState(active, queue, m, ph) == [active |-> active, queue |-> queue, mq |-> m, ph |-> ph]

RemoveAt(q, k) == SubSeq(q, 1, k - 1) \o SubSeq(q, k + 1, Len(q))

\* the admission test with the comparison off by one: a host at its cap still
\* admits
AdmissibleOffByOne(H, maxPerHost) ==
  {k \in 1..Len(H.queue) : MapGet(H.active, H.queue[k].host) <= maxPerHost}

\* next() that looks at the head of the queue only: a strict FIFO over all
\* hosts
AdmissibleHeadOnly(H, maxPerHost) ==
  {k \in 1..Min(1, Len(H.queue)) : MapGet(H.active, H.queue[k].host) < maxPerHost}

\* the jobs of the queue that next() may admit: their host is below the cap
Admissible(H, maxPerHost) ==
  {k \in 1..Len(H.queue) : MapGet(H.active, H.queue[k].host) < maxPerHost}

\* the scan of next() run from the back of the queue: the last admissible job
LastAdmissible(H, maxPerHost) ==
  The({ CHOOSE x \in A : \A y \in A : x >= y : A \in {Admissible(H, maxPerHost)} })

\* the queue index of the job that next() admits
FirstAdmissible(H, maxPerHost) ==
  The({ CHOOSE x \in A : \A y \in A : x <= y : A \in {Admissible(H, maxPerHost)} })

\* the state after next() has admitted the job at queue index k
Admit(H, k) ==
  HState(MapSet(H.active, H.queue[k].host, MapGet(H.active, H.queue[k].host) + 1),
         RemoveAt(H.queue, k),
         Append(H.mq, Task("hStart", H.queue[k].i, TRUE)),
         [H.ph EXCEPT ![H.queue[k].i] = "admitted"])

\* next(): admit the first queued job whose host is below the cap, and stop
next(H, maxPerHost) ==
  IF Admissible(H, maxPerHost) = {} THEN H
  ELSE The({ Admit(H, k) : k \in {FirstAdmissible(H, maxPerHost)} })

\* the function createPerHostLimiter returns: queue.push(job); next()
hostLimiter(H, maxPerHost, host, i) ==
  next(HState(H.active, Append(H.queue, [host |-> host, i |-> i]), H.mq,
              [H.ph EXCEPT ![i] = "queued"]), maxPerHost)

\* a settled job that keeps its slot: the count is written back unchanged
ReleasedNever(H, host) == MapGet(H.active, host)

\* the count a settled job writes back: (active.get(host) || 1) - 1
Released(H, host) ==
  (IF MapGet(H.active, host) = 0 THEN 1 ELSE MapGet(H.active, host)) - 1


(***************************************************************************)
(* POST: ZIP many (route.js 226-356)                                       *)
(***************************************************************************)
HostUnknown == <<"u","n","k","n","o","w","n">>

\* new URL(rawUrl).host, lower-cased as the URL parser does; HostUnknown when
\* the URL does not parse (no scheme://) or has no host
\* the part of an authority up to the first "/", "?" or "#"
UpToPath(rest) ==
  The({ IF ends = {} THEN rest
        ELSE SubSeq(rest, 1, (CHOOSE k \in ends : \A j \in ends : k <= j) - 1) :
        ends \in {{k \in 1..Len(rest) : rest[k] \in {"/", "?", "#"}}} })

\* whether rawUrl has a scheme followed by "//", the colon at 0-based index c
HasAuthority(rawUrl, c) ==
  c > 0 /\ Len(rawUrl) >= c + 3 /\ rawUrl[c + 2] = "/" /\ rawUrl[c + 3] = "/"

HostOf(rawUrl) ==
  The({ IF HasAuthority(rawUrl, c)
        THEN The({ IF host # <<>> THEN host ELSE HostUnknown :
                     host \in {toLowerCase(UpToPath(SliceFrom(rawUrl, c + 3)))} })
        ELSE HostUnknown :
        c \in {indexOf(rawUrl, ":")} })

\* const files = Array.isArray(body?.files) ? body.files : [], with the body
\* of req.json().catch(() => ({}))
FilesOf(body) ==
  IF body.json = "object" /\ body.filesKind = "array" THEN body.files ELSE <<>>

\* the handler without the early return on an empty list
NoFilesNever(files) == FALSE

\* if (!files.length)
NoFiles(files) == Len(files) = 0

\* v ?? d: d when v is null or undefined
Coalesce(v, d) == IF v.kind \in {"absent", "null"} THEN d ELSE v

\* the 32-bit two's complement reading of the bits hi * 2^16 + lo
Signed32(hi, lo) ==
  IF hi % (2^16) < 2^15
  THEN (hi % (2^16)) * (2^16) + lo
  ELSE ((hi % (2^16)) - 2^16) * (2^16) + lo

\* the negation of a 32-bit integer, which wraps at -2^31
Negated32(n) == IF n = (0 - 2^15) * (2^16) THEN n ELSE 0 - n

\* Number(v) | 0: ToInt32 of the number. NaN and the infinities give 0, a
\* fraction is truncated toward zero, an integer is taken modulo 2^32
ToInt32(v) ==
  IF v.kind # "number" THEN 0
  ELSE IF v.den > 1
       THEN (IF v.neg THEN 0 - (v.lo \div v.den) ELSE v.lo \div v.den)
       ELSE IF v.neg THEN Negated32(Signed32(v.hi, v.lo)) ELSE Signed32(v.hi, v.lo)

\* the global limit without the lower clamp
GlobalLimitNoFloor(body) ==
  Min(48, ToInt32(Coalesce(body.concurrency, Num(12))))

\* Math.min(48, Math.max(2, Number(body?.concurrency ?? 12) | 0))
GlobalLimitOf(body) ==
  Min(48, Max(2, ToInt32(Coalesce(body.concurrency, Num(12)))))

\* Math.min(8, Math.max(1, Number(body?.perHostConcurrency ?? 3) | 0))
HostLimitOf(body) ==
  Min(8, Max(1, ToInt32(Coalesce(body.perHostConcurrency, Num(3)))))

Files == FilesOf(req.body)

N == Len(Files)

StrImage == <<"i","m","a","g","e","_">>

StrMissing == <<"(","m","i","s","s","i","n","g",")">>

\* item?.filename || `image_${idx + 1}`; i is idx + 1
ProvidedName(i) ==
  sanitize(IF Files[i].filename # NoStr THEN Files[i].filename ELSE StrImage \o NumStr(i))

Entry(name, kind, i, lines) == [name |-> name, kind |-> kind, item |-> i, lines |-> lines]

\* zip.file(name, data): JSZip keeps one entry per name, the last one written
zipFile(z, e) == {x \in z : x.name # e.name} \cup {e}

\* the naming of an item without url that does not add the .png extension
MissingNameBare(i, usedLowerSet) == ensureUnique(ProvidedName(i), usedLowerSet)

\* the entry name of an item without url (route.js 253-257)
MissingName(i, usedLowerSet) ==
  The({ The({ ensureUnique(name, usedLowerSet) :
                name \in {IF HasExtRe(baseName) THEN baseName ELSE baseName \o ExtPng} }) :
          baseName \in {ProvidedName(i)} })

\* the naming of a fetched item without the inferred extension
SuccessNameBare(i, contentType, usedLowerSet) ==
  The({ ensureUnique(provided, usedLowerSet) : provided \in {ProvidedName(i)} })

\* the entry name of a fetched item (route.js 274-279)
SuccessName(i, contentType, usedLowerSet) ==
  The({ The({ ensureUnique(withExt, usedLowerSet) :
                withExt \in {IF HasExtRe(provided) THEN provided
                             ELSE provided \o inferExt(contentType, Files[i].url)} }) :
          provided \in {ProvidedName(i)} })

\* the entry name of an item whose fetch failed (route.js 284-287)
FailureName(i, usedLowerSet) ==
  The({ The({ ensureUnique(withExt, usedLowerSet) :
                withExt \in {IF HasExtRe(provided) THEN provided ELSE provided \o ExtPng} }) :
          provided \in {ProvidedName(i)} })

\* a line of FAILED.txt: `#${f.index + 1}  ${f.url}...`
FailureLine(f) == [number |-> f.index + 1, url |-> f.url]

DiagnosticName == NameFailedTxt

G == GState(gActive, gQ, mq, gph)

H == HState(hActive, hQueue, mq, hph)

\* the handler parses the body, answers 400 when there are no files, and
\* otherwise creates the two limiters (route.js 228-239)
POST_Begin ==
  /\ req.method = "POST" /\ pc = "start"
  /\ IF NoFiles(Files)
     THEN /\ response' = Respond(400, "text/plain", "No files")
          /\ pc' = "done"
          /\ UNCHANGED <<limiters, glimit, hlimit>>
     ELSE /\ limiters' = limiters + 2
          /\ glimit' = GlobalLimitOf(req.body)
          /\ hlimit' = HostLimitOf(req.body)
          /\ pc' = "import"
          /\ UNCHANGED response
  /\ UNCHANGED <<stream, ui, fw, strict, req, jszip, gActive, gQ, hActive, hQueue, mq, gph, hph,
                 fetching, fetchCount, outcome, used, zip, failures, resolvedJobs>>

\* await import("jszip") resolves; every item is submitted to the global
\* limiter in input order (route.js 241-297)
POST_Schedule ==
  /\ pc = "import" /\ jszip[1]
  /\ \E G1 \in {SubmitAll(G, glimit, 1, N)} :
        /\ gActive' = G1.active
        /\ gQ' = G1.q
        /\ mq' = G1.mq
        /\ gph' = G1.ph
  /\ pc' = "awaitAll"
  /\ UNCHANGED <<stream, ui, fw, strict, req, jszip, response, limiters, glimit, hlimit, hActive,
                 hQueue, hph, fetching, fetchCount, outcome, used, zip, failures,
                 resolvedJobs>>

\* await import("jszip") rejects: control passes to the outer catch
POST_ImportFails ==
  /\ pc = "import" /\ ~jszip[1]
  /\ pc' = "catch"
  /\ UNCHANGED <<stream, ui, fw, strict, req, jszip, response, postVars>>

\* the outer catch (route.js 340-355) imports jszip again to wrap the error
POST_Catch ==
  /\ pc = "catch"
  /\ response' = IF jszip[2]
                 THEN Respond(200, "application/zip", "error zip")
                 ELSE Rejected
  /\ pc' = "done"
  /\ UNCHANGED <<stream, ui, fw, strict, req, jszip, postVars>>

\* the job of item i starts (route.js 249-269): an item without url gets its
\* placeholder at once, any other is handed to the per-host limiter
GStart(i) ==
  /\ pc = "awaitAll" /\ mq # <<>> /\ Head(mq) = Task("gStart", i, TRUE)
  /\ IF Files[i].url = NoStr
     THEN \E finalName \in {MissingName(i, used)} :
             /\ used' = used \cup {toLowerCase(finalName)}
             /\ zip' = zipFile(zip, Entry(finalName, "placeholder", i, <<>>))
             /\ failures' = Append(failures, [index |-> i - 1, url |-> StrMissing])
             /\ gph' = [gph EXCEPT ![i] = "settled"]
             /\ mq' = Append(Tail(mq), Task("gDone", i, TRUE))
             /\ UNCHANGED <<hActive, hQueue, hph>>
     ELSE \E H1 \in {hostLimiter(HState(hActive, hQueue, Tail(mq), hph), hlimit,
                                 HostOf(Files[i].url), i)} :
             /\ hActive' = H1.active
             /\ hQueue' = H1.queue
             /\ mq' = H1.mq
             /\ hph' = H1.ph
             /\ gph' = [gph EXCEPT ![i] = "running"]
             /\ UNCHANGED <<used, zip, failures>>
  /\ UNCHANGED <<stream, ui, fw, strict, req, jszip, pc, response, limiters, glimit, gActive, gQ,
                 hlimit, fetching, fetchCount, outcome, resolvedJobs>>

\* the per-host job of item i starts: it calls fetchWithRetries (route.js 270)
HStart(i) ==
  /\ pc = "awaitAll" /\ mq # <<>> /\ Head(mq) = Task("hStart", i, TRUE)
  /\ hph' = [hph EXCEPT ![i] = "running"]
  /\ fetching' = fetching \cup {i}
  /\ fetchCount' = fetchCount + 1
  /\ mq' = Tail(mq)
  /\ UNCHANGED <<stream, ui, fw, strict, req, jszip, pc, response, limiters, glimit, gActive, gQ,
                 hlimit, hActive, hQueue, gph, outcome, used, zip, failures,
                 resolvedJobs>>

\* fetchWithRetries of item i returns or throws "Exhausted retries"; on
\* success the job names and writes the entry (route.js 270-281)
FetchSettle(i, o) ==
  /\ pc = "awaitAll" /\ mq = <<>> /\ i \in fetching
  /\ fetching' = fetching \ {i}
  /\ outcome' = [outcome EXCEPT ![i] = o]
  /\ IF o.ok
     THEN \E finalName \in {SuccessName(i, o.contentType, used)} :
             /\ used' = used \cup {toLowerCase(finalName)}
             /\ zip' = zipFile(zip, Entry(finalName, "real", i, <<>>))
     ELSE UNCHANGED <<used, zip>>
  /\ hph' = [hph EXCEPT ![i] = "settled"]
  /\ mq' = Append(mq, Task("hDone", i, o.ok))
  /\ UNCHANGED <<stream, ui, fw, strict, req, jszip, pc, response, limiters, glimit, gActive, gQ,
                 hlimit, hActive, hQueue, gph, fetchCount, failures, resolvedJobs>>

\* the then/catch reaction of next() for item i: release the host slot,
\* settle the job's promise, admit the next job (route.js 164-173)
HDone(i, ok) ==
  /\ pc = "awaitAll" /\ mq # <<>> /\ Head(mq) = Task("hDone", i, ok)
  /\ \E host \in {HostOf(Files[i].url)} :
     \E H0 \in {HState(MapSet(hActive, host, Released(H, host)), hQueue,
                        Append(Tail(mq), Task("gResume", i, ok)),
                        [hph EXCEPT ![i] = "released"])} :
     \E H1 \in {next(H0, hlimit)} :
        /\ hActive' = H1.active
        /\ hQueue' = H1.queue
        /\ mq' = H1.mq
        /\ hph' = H1.ph
  /\ UNCHANGED <<stream, ui, fw, strict, req, jszip, pc, response, limiters, glimit, gActive, gQ,
                 hlimit, gph, fetching, fetchCount, outcome, used, zip, failures,
                 resolvedJobs>>

\* await hostLimiter(...) resumes in the job of item i; when it threw, the
\* catch writes a placeholder and records the failure (route.js 282-294)
GResume(i, ok) ==
  /\ pc = "awaitAll" /\ mq # <<>> /\ Head(mq) = Task("gResume", i, ok)
  /\ IF ok
     THEN UNCHANGED <<used, zip, failures>>
     ELSE \E finalName \in {FailureName(i, used)} :
             /\ used' = used \cup {toLowerCase(finalName)}
             /\ zip' = zipFile(zip, Entry(finalName, "placeholder", i, <<>>))
             /\ failures' = Append(failures, [index |-> i - 1, url |-> Files[i].url])
  /\ gph' = [gph EXCEPT ![i] = "settled"]
  /\ mq' = Append(Tail(mq), Task("gDone", i, TRUE))
  /\ UNCHANGED <<stream, ui, fw, strict, req, jszip, pc, response, limiters, glimit, gActive, gQ,
                 hlimit, hActive, hQueue, hph, fetching, fetchCount, outcome,
                 resolvedJobs>>

\* the then reaction of pump() for item i: release the global slot, resolve
\* the job's promise, pump (route.js 134-138); the last promise to resolve
\* resolves the Promise.all
GDone(i) ==
  /\ pc = "awaitAll" /\ mq # <<>> /\ Head(mq) = Task("gDone", i, TRUE)
  /\ resolvedJobs' = resolvedJobs + 1
  /\ \E m0 \in {IF resolvedJobs + 1 = N
                  THEN Append(Tail(mq), Task("allDone", 0, TRUE)) ELSE Tail(mq)} :
     \E G1 \in {pump(GState(gActive - 1, gQ, m0, [gph EXCEPT ![i] = "released"]),
                      glimit)} :
        /\ gActive' = G1.active
        /\ gQ' = G1.q
        /\ mq' = G1.mq
        /\ gph' = G1.ph
  /\ UNCHANGED <<stream, ui, fw, strict, req, jszip, pc, response, limiters, glimit, hlimit,
                 hActive, hQueue, hph, fetching, fetchCount, outcome, used, zip,
                 failures>>

(***************************************************************************)
(* The archive stream of POST (route.js 312-329).  The generator of JSZip  *)
(* (generateInternalStream) emits "data" any number of times and then one  *)
(* of "end" and "error"; it drops its listeners when it has emitted that   *)
(* one, so nothing is emitted after it.                                    *)
(***************************************************************************)
MaxChunks == 1

NoStream ==
  [gen |-> "none", writer |-> "none", chunks |-> 0, closes |-> 0, late |-> 0]

\* new TransformStream(), writable.getWriter(), and the generator resumed
\* with its three listeners (route.js 312-329)
StreamStarted ==
  [gen |-> "running", writer |-> "open", chunks |-> 0, closes |-> 0, late |-> 0]

\* writer.write(chunk): late counts the chunks written to a closed writer
write(s) ==
  IF s.writer = "open" THEN [s EXCEPT !.chunks = @ + 1]
  ELSE [s EXCEPT !.late = @ + 1]

\* writer.close()
close(s) == [s EXCEPT !.writer = "closed", !.closes = @ + 1]

\* a listener that leaves the writer alone
onErrorLogsOnly(s) == s

\* .on("data", (chunk) => writer.write(chunk))
onData(s) == write(s)

\* .on("error", (err) => { console.error(...); writer.close(); })
onError(s) == close(s)

\* .on("end", () => writer.close())
onEnd(s) == close(s)

\* after the Promise.all: FAILED.txt when failures were recorded, then the
\* archive is streamed in a 200 response (route.js 299-339)
AllDone ==
  /\ pc = "awaitAll" /\ mq # <<>> /\ Head(mq) = Task("allDone", 0, TRUE)
  /\ zip' = IF Len(failures) > 0
            THEN zipFile(zip, Entry(DiagnosticName, "diagnostic", 0,
                                    [k \in 1..Len(failures) |-> FailureLine(failures[k])]))
            ELSE zip
  /\ response' = Respond(200, "application/zip", "zip")
  /\ pc' = "done"
  /\ mq' = Tail(mq)
  /\ stream' = StreamStarted
  /\ UNCHANGED <<ui, fw, strict, req, jszip, limiters, glimit, gActive, gQ, hlimit,
                 hActive, hQueue, gph, hph, fetching, fetchCount, outcome, used,
                 failures, resolvedJobs>>


\* the generator emits a chunk
ZipData ==
  /\ stream.gen = "running" /\ stream.chunks + stream.late < MaxChunks
  /\ stream' = onData(stream)
  /\ UNCHANGED <<ui, req, jszip, pc, response, postVars, fw, strict>>

\* the generator has emitted everything
ZipEnd ==
  /\ stream.gen = "running"
  /\ stream' = [onEnd(stream) EXCEPT !.gen = "ended"]
  /\ UNCHANGED <<ui, req, jszip, pc, response, postVars, fw, strict>>

\* the generator fails
ZipError ==
  /\ stream.gen = "running"
  /\ stream' = [onError(stream) EXCEPT !.gen = "errored"]
  /\ UNCHANGED <<ui, req, jszip, pc, response, postVars, fw, strict>>


(***************************************************************************)
(* fetchWithRetries (route.js 87-114), as GET calls it                     *)
(***************************************************************************)
\* attempts: 6 in the call of GET
Attempts == 6

\* the length of the list buildProxyUrls returns
NumProxies == 5

\* phase: idle, fetch (a fetchOnce is in flight), sleep30 (before a proxy
\* try), backoff (between outer attempts), returned, threw
\* i: the outer attempt; k: the try within it, 0 the direct URL, 1..5 a proxy
\* timer: the setTimeout of this attempt; aborted: ctl.signal.aborted
\* tries, backoffs: the fetchOnce calls and the backoff sleeps made so far
\* leaked: timers of finished attempts that were never cleared
\* last: how the last fetchOnce that ended did end
NoTry == [kind |-> "none", status |-> 0, contentType |-> ""]

FwIdle ==
  [phase |-> "idle", i |-> 0, k |-> 0, timer |-> "none", aborted |-> FALSE,
   tries |-> 0, backoffs |-> 0, leaked |-> 0, last |-> NoTry]

\* the top of the for loop: a new AbortController, a new timer, the direct try
FwAttempt(f, i) ==
  [f EXCEPT !.phase = "fetch", !.i = i, !.k = 0, !.timer = "pending",
            !.aborted = FALSE, !.tries = f.tries + 1]

\* the ways one fetchOnce can end when its signal has not been aborted: a
\* success status with a body, a non-success status, a network error
TryResults ==
  {[kind |-> "ok", status |-> 200, contentType |-> ct] : ct \in {"", "image/gif"}}
    \cup {[kind |-> "status", status |-> st, contentType |-> ""] : st \in {304, 400, 500}}
    \cup {[kind |-> "network", status |-> 0, contentType |-> ""]}

\* an aborted signal rejects the fetch
AbortResult == [kind |-> "abort", status |-> 0, contentType |-> ""]

\* clearTimeout(timer): a timer that has fired stays fired
Cleared(timer) == IF timer = "pending" THEN "cleared" ELSE timer

\* fetchWithRetries whose proxy loop skips the endpoint after a failed one
FwAfterTrySkipping(f, r) ==
  IF r.kind = "ok"
  THEN IF f.k = 0
       THEN [f EXCEPT !.phase = "returned",
                      !.leaked = f.leaked + (IF f.timer = "pending" THEN 1 ELSE 0)]
       ELSE [f EXCEPT !.phase = "returned", !.timer = Cleared(f.timer)]
  ELSE IF f.k + 1 < NumProxies
       THEN [f EXCEPT !.phase = "sleep30", !.k = f.k + 2]
       ELSE IF f.i < Attempts - 1
            THEN [f EXCEPT !.phase = "backoff", !.timer = Cleared(f.timer),
                           !.backoffs = f.backoffs + 1]
            ELSE [f EXCEPT !.phase = "threw", !.timer = Cleared(f.timer)]

\* fetchWithRetries with the test before the backoff negated: it sleeps after
\* the last outer attempt and not between the attempts
FwAfterTryBackoffFlipped(f, r) ==
  IF r.kind = "ok"
  THEN IF f.k = 0
       THEN [f EXCEPT !.phase = "returned",
                      !.leaked = f.leaked + (IF f.timer = "pending" THEN 1 ELSE 0)]
       ELSE [f EXCEPT !.phase = "returned", !.timer = Cleared(f.timer)]
  ELSE IF f.k < NumProxies
       THEN [f EXCEPT !.phase = "sleep30", !.k = f.k + 1]
       ELSE IF f.i < Attempts - 1
            THEN [f EXCEPT !.phase = "backoff", !.timer = Cleared(f.timer)]
            ELSE [f EXCEPT !.phase = "threw", !.timer = Cleared(f.timer),
                           !.backoffs = f.backoffs + 1]

\* fetchWithRetries after the fetchOnce in flight ended with r; the result is
\* recorded in f.last by FwAfterTry
FwAfterTryOf(f, r) ==
  IF r.kind = "ok"
  THEN \* return await fetchOnce(url): the timer stays armed; a proxy
       \* success clears it first
       IF f.k = 0
       THEN [f EXCEPT !.phase = "returned",
                      !.leaked = f.leaked + (IF f.timer = "pending" THEN 1 ELSE 0)]
       ELSE [f EXCEPT !.phase = "returned", !.timer = Cleared(f.timer)]
  ELSE IF f.k < NumProxies
       THEN \* the next proxy, after sleep(30)
            [f EXCEPT !.phase = "sleep30", !.k = f.k + 1]
       ELSE \* all proxies failed: clearTimeout, then backoff or give up
            IF f.i < Attempts - 1
            THEN [f EXCEPT !.phase = "backoff", !.timer = Cleared(f.timer),
                           !.backoffs = f.backoffs + 1]
            ELSE [f EXCEPT !.phase = "threw", !.timer = Cleared(f.timer)]

FwAfterTry(f, r) == FwAfterTryOf([f EXCEPT !.last = r], r)

(***************************************************************************)
(* GET: single proxy, best effort (route.js 192-218)                       *)
(***************************************************************************)
\* the handlers without the check of the url parameter
MissingUrlNever(url) == FALSE

\* if (!url), of both GET variants
MissingUrl(url) == url = NoStr

\* the response of GET once fetchWithRetries has returned or thrown
GetResponse(f) ==
  IF f.phase = "returned"
  THEN Respond(200, IF f.last.contentType = "" THEN "application/octet-stream"
                    ELSE f.last.contentType, "bytes")
  ELSE Respond(200, "image/png", "FALLBACK_PNG")

GET_Begin ==
  /\ req.method = "GET" /\ pc = "start"
  /\ IF MissingUrl(req.url)
     THEN /\ response' = Respond(400, "text/plain", "Missing url")
          /\ pc' = "done"
          /\ UNCHANGED fw
     ELSE /\ fw' = FwAttempt(fw, 0)
          /\ pc' = "fetch"
          /\ UNCHANGED response
  /\ UNCHANGED <<req, jszip, postVars, strict, stream, ui>>

\* the fetchOnce in flight ends; an aborted signal leaves it one way to end
FW_TryEnds(r) ==
  /\ pc = "fetch" /\ fw.phase = "fetch"
  /\ fw.aborted <=> r = AbortResult
  /\ fw' = FwAfterTry(fw, r)
  /\ IF fw'.phase \in {"returned", "threw"}
     THEN /\ response' = GetResponse(fw')
          /\ pc' = "done"
     ELSE UNCHANGED <<response, pc>>
  /\ UNCHANGED <<req, jszip, postVars, strict, stream, ui>>

\* sleep(30) is over: the proxy try starts on the attempt's signal
FW_ProxyTry ==
  /\ pc = "fetch" /\ fw.phase = "sleep30"
  /\ fw' = [fw EXCEPT !.phase = "fetch", !.tries = fw.tries + 1]
  /\ UNCHANGED <<req, jszip, pc, response, postVars, strict, stream, ui>>

\* sleep(jitter(delay)) is over: the next outer attempt
FW_NextAttempt ==
  /\ pc = "fetch" /\ fw.phase = "backoff"
  /\ fw' = FwAttempt(fw, fw.i + 1)
  /\ UNCHANGED <<req, jszip, pc, response, postVars, strict, stream, ui>>

\* the attempt's timer fires after timeoutMs: ctl.abort()
FW_TimerFires ==
  /\ fw.timer = "pending"
  /\ fw' = [fw EXCEPT !.timer = "fired", !.aborted = TRUE]
  /\ UNCHANGED <<req, jszip, pc, response, postVars, strict, stream, ui>>

(***************************************************************************)
(* GET: single file passthrough, strict (route.js 394-428)                 *)
(***************************************************************************)
\* the statuses the Response constructor refuses when a body is given
IsNullBodyStatus(st) == st \in {101, 103, 204, 205, 304}

\* new Response("Upstream error", { status: upstream.status }) inside the
\* try: a null body status makes the constructor throw, and the catch answers
UpstreamErrorResponse(st) ==
  IF IsNullBodyStatus(st)
  THEN Respond(502, "text/plain", "Fetch failed")
  ELSE Respond(st, "text/plain", "Upstream error")

StrictResponse(r) ==
  CASE r.kind = "ok" ->
         Respond(200, IF r.contentType = "" THEN "application/octet-stream"
                      ELSE r.contentType, "bytes")
    [] r.kind = "status" -> UpstreamErrorResponse(r.status)
    [] OTHER -> Respond(502, "text/plain", "Fetch failed")

GET2_Begin ==
  /\ req.method = "GET_strict" /\ pc = "start"
  /\ IF MissingUrl(req.url)
     THEN /\ response' = Respond(400, "text/plain", "Missing url")
          /\ pc' = "done"
          /\ UNCHANGED strict
     ELSE /\ strict' = [strict EXCEPT !.fetches = strict.fetches + 1]
          /\ pc' = "fetch"
          /\ UNCHANGED response
  /\ UNCHANGED <<req, jszip, postVars, fw, stream, ui>>

\* the one fetch(url) of the strict variant ends
GET2_FetchEnds(r) ==
  /\ req.method = "GET_strict" /\ pc = "fetch"
  /\ strict' = [strict EXCEPT !.upstream = r]
  /\ response' = StrictResponse(r)
  /\ pc' = "done"
  /\ UNCHANGED <<req, jszip, postVars, fw, stream, ui>>

(***************************************************************************)
(* ActiveFeedbackTestimonials, the testimonial carousel (route.js 508-887) *)
(* A handler that sets state is followed by the render and the effects     *)
(* React runs for it before the next event is delivered.                   *)
(***************************************************************************)
MaxSlides == 3

\* intervalRef.current = null
NoInterval == 0

\* the % of JavaScript: the result has the sign of n
JsRem(n, m) == IF n >= 0 THEN n % m ELSE 0 - ((0 - n) % m)

\* mod(n, m) (route.js 501-503)
mod(n, m) == JsRem(JsRem(n, m) + m, m)

\* the component: the props autoplayInitial and reducedMotion, the state
\* active and autoplay, total = testimonials.length, the refs isHoveringRef,
\* isVisibleRef and intervalRef (NoInterval, or the total its callback
\* closed over); crashed: a render threw and React unmounted the component;
\* dragging, interacted, last: a drag is under way, the user has navigated
\* or dragged with more than one slide, the last event
Component(autoplayInitial, reducedMotion, n) ==
  [mounted |-> TRUE, crashed |-> FALSE, autoplayInitial |-> autoplayInitial,
   reducedMotion |-> reducedMotion, total |-> n, active |-> 0,
   autoplay |-> autoplayInitial, hovering |-> FALSE, visible |-> TRUE,
   interval |-> NoInterval, dragging |-> FALSE, interacted |-> FALSE,
   last |-> "mount"]

\* no component in the page
Unmounted == [Component(FALSE, FALSE, 0) EXCEPT !.mounted = FALSE, !.last = "none"]

\* stopInterval (route.js 555-560)
stopInterval(c) == [c EXCEPT !.interval = NoInterval]

\* startInterval without the test of autoplay
startIntervalAnyway(c) ==
  IF c.total <= 1 \/ c.reducedMotion \/ c.hovering \/ ~c.visible
  THEN stopInterval(c)
  ELSE [stopInterval(c) EXCEPT !.interval = c.total]

\* startInterval (route.js 562-576)
startInterval(c) ==
  IF ~c.autoplay \/ c.total <= 1 \/ c.reducedMotion \/ c.hovering \/ ~c.visible
  THEN stopInterval(c)
  ELSE [stopInterval(c) EXCEPT !.interval = c.total]

\* the callback of setInterval: setActive((prev) => mod(prev + 1, total)),
\* with the total startInterval closed over
onTick(c) == [c EXCEPT !.active = mod(c.active + 1, c.interval)]

\* the callback of the IntersectionObserver (route.js 593-597)
onIntersect(c, isIntersecting) == startInterval([c EXCEPT !.visible = isIntersecting])

\* onMouseEnter, onMouseLeave (route.js 607-614)
onMouseEnter(c) == stopInterval([c EXCEPT !.hovering = TRUE])

onMouseLeave(c) == startInterval([c EXCEPT !.hovering = FALSE])

\* if (autoplay) { setAutoplay(false); stopInterval(); }
StopAutoplay(c) == IF c.autoplay THEN stopInterval([c EXCEPT !.autoplay = FALSE]) ELSE c

\* handleUserNavigate (route.js 617-629)
handleUserNavigate(c, dir) ==
  IF c.total <= 1 THEN c
  ELSE [StopAutoplay(c) EXCEPT
          !.active = IF dir = "next" THEN mod(c.active + 1, c.total)
                     ELSE mod(c.active - 1, c.total)]

\* onDragStart (route.js 735-740)
onDragStart(c) == [StopAutoplay(c) EXCEPT !.dragging = TRUE]

\* onDragEnd (route.js 741-756): past a threshold to the right it navigates
\* to the previous slide, to the left to the next one
onDragEnd(c, dir) ==
  IF dir = "none" THEN [c EXCEPT !.dragging = FALSE]
  ELSE handleUserNavigate([c EXCEPT !.dragging = FALSE], dir)

\* the render of the component (route.js 652-887): with slides it reads
\* testimonials[active].name, which throws when active is not an index of
\* the list; React then unmounts the component and runs the cleanup of its
\* effects
render(c) ==
  IF c.total > 0 /\ c.active \notin 0..(c.total - 1)
  THEN [stopInterval(c) EXCEPT !.crashed = TRUE, !.dragging = FALSE]
  ELSE [c EXCEPT !.dragging = c.dragging /\ c.total > 0]

\* the render after the state or the list changed from old to c, and the
\* effect of route.js 578-581, which runs again when startInterval changed
\* (its dependencies autoplay and total)
Rerender(old, c) ==
  IF render(c).crashed THEN render(c)
  ELSE IF old.autoplay # c.autoplay \/ old.total # c.total
       THEN startInterval(stopInterval(render(c)))
       ELSE render(c)

\* the first render and its effects
Mount(autoplayInitial, reducedMotion, n) ==
  startInterval(render(Component(autoplayInitial, reducedMotion, n)))

\* what happened: the event, and whether the user has interacted while the
\* carousel had more than one slide
Noted(old, c, event, byUser) ==
  [c EXCEPT !.last = event, !.interacted = old.interacted \/ (byUser /\ old.total > 1)]

handlerVars == <<req, jszip, pc, response, postVars, fw, strict, stream>>

Alive == ui.mounted /\ ~ui.crashed

\* a click on an arrow, rendered when total > 1 (route.js 833-884)
ArrowClick(dir) ==
  /\ Alive /\ ui.total > 1
  /\ ui' = Noted(ui, Rerender(ui, handleUserNavigate(ui, dir)), "arrow", TRUE)
  /\ UNCHANGED handlerVars

\* ArrowLeft or ArrowRight on the window (route.js 636-646)
ArrowKey(dir) ==
  /\ Alive
  /\ ui' = Noted(ui, Rerender(ui, handleUserNavigate(ui, dir)), "key", TRUE)
  /\ UNCHANGED handlerVars

\* the user starts to drag the image of the active slide
DragStart ==
  /\ Alive /\ ui.total > 0 /\ ~ui.dragging
  /\ ui' = Noted(ui, Rerender(ui, onDragStart(ui)), "dragStart", TRUE)
  /\ UNCHANGED handlerVars

\* the user lets go
DragEnd(dir) ==
  /\ Alive /\ ui.total > 0 /\ ui.dragging
  /\ ui' = Noted(ui, Rerender(ui, onDragEnd(ui, dir)), "dragEnd", dir # "none")
  /\ UNCHANGED handlerVars

\* the pointer enters or leaves the section
MouseEnter ==
  /\ Alive /\ ui.total > 0 /\ ~ui.hovering
  /\ ui' = Noted(ui, onMouseEnter(ui), "enter", FALSE)
  /\ UNCHANGED handlerVars

MouseLeave ==
  /\ Alive /\ ui.total > 0 /\ ui.hovering
  /\ ui' = Noted(ui, onMouseLeave(ui), "leave", FALSE)
  /\ UNCHANGED handlerVars

\* the observer reports the section as (not) intersecting
Intersect(isIntersecting) ==
  /\ Alive /\ ui.total > 0
  /\ ui' = Noted(ui, onIntersect(ui, isIntersecting), "intersect", FALSE)
  /\ UNCHANGED handlerVars

\* the interval fires
Tick ==
  /\ Alive /\ ui.interval # NoInterval
  /\ ui' = Noted(ui, Rerender(ui, onTick(ui)), "tick", FALSE)
  /\ UNCHANGED handlerVars

\* the store delivers a feedback list of another length
FeedbackUpdate(n) ==
  /\ Alive /\ n # ui.total
  /\ ui' = Noted(ui, Rerender(ui, [ui EXCEPT !.total = n]), "feedback", FALSE)
  /\ UNCHANGED handlerVars

(***************************************************************************)
(* Specification                                                           *)
(***************************************************************************)
EmptyBody == Body("null", "absent", <<>>, Absent, Absent)

Requests ==
  {[method |-> m, url |-> u, body |-> EmptyBody] :
     m \in {"GET", "GET_strict"}, u \in {NoStr, UrlA1}}
    \cup {[method |-> "POST", url |-> NoStr, body |-> b] : b \in BodySet}

\* the handlers before a request of the set R is handled
HandlersIdle(R) ==
  /\ req \in R
  /\ jszip \in {<<TRUE, TRUE>>, <<FALSE, TRUE>>, <<FALSE, FALSE>>}
  /\ (req.method # "POST" => jszip = <<TRUE, TRUE>>)
  /\ pc = "start"
  /\ response = NoResponse
  /\ limiters = 0
  /\ glimit = 0
  /\ gActive = 0
  /\ gQ = <<>>
  /\ hlimit = 0
  /\ hActive = <<>>
  /\ hQueue = <<>>
  /\ mq = <<>>
  /\ gph = [i \in 1..Len(FilesOf(req.body)) |-> "none"]
  /\ hph = [i \in 1..Len(FilesOf(req.body)) |-> "none"]
  /\ fetching = {}
  /\ fetchCount = 0
  /\ outcome = [i \in 1..Len(FilesOf(req.body)) |-> NoOutcome]
  /\ used = {}
  /\ zip = {}
  /\ failures = <<>>
  /\ resolvedJobs = 0
  /\ fw = FwIdle
  /\ strict = [fetches |-> 0, upstream |-> NoTry]
  /\ stream = NoStream

\* the state in which a handler is entered with a request of the set R
InitOf(R) == HandlersIdle(R) /\ ui = Unmounted

Init == InitOf(Requests)

Next ==
  \/ POST_Begin
  \/ POST_Schedule
  \/ POST_ImportFails
  \/ POST_Catch
  \/ \E i \in 1..N : GStart(i)
  \/ \E i \in 1..N : HStart(i)
  \/ \E i \in 1..N : \E o \in FetchOutcomes : FetchSettle(i, o)
  \/ \E i \in 1..N : \E ok \in BOOLEAN : HDone(i, ok)
  \/ \E i \in 1..N : \E ok \in BOOLEAN : GResume(i, ok)
  \/ \E i \in 1..N : GDone(i)
  \/ AllDone
  \/ ZipData
  \/ ZipEnd
  \/ ZipError
  \/ GET_Begin
  \/ \E r \in TryResults \cup {AbortResult} : FW_TryEnds(r)
  \/ FW_ProxyTry
  \/ FW_NextAttempt
  \/ FW_TimerFires
  \/ GET2_Begin
  \/ \E r \in TryResults : GET2_FetchEnds(r)

Spec == Init /\ [][Next]_vars

\* every microtask that is ready runs, every timer that is armed fires or is
\* cleared, and every fetch in flight ends
FairSpec == Spec /\ WF_vars(Next)

\* values of concurrency and perHostConcurrency: missing, null, zero,
\* negative, inside and outside the range, fractional, 2^31, 2^32 + 7,
\* 2^32 + 100, too large for a double, and not numeric
ClampInputs ==
  { Absent, JsonNull, NotANumber, Infinite,
    Num(0), Num(0 - 5), Num(1), Num(5), Num(12), Num(48), Num(49), Num(1000),
    Frac(FALSE, 5, 2), Frac(TRUE, 1, 2), Frac(FALSE, 97, 2),
    Big(2^15, 0), Big(2^16, 7), Big(2^16, 100) }

\* POST requests with one item and every pair of these values
ClampRequests ==
  {[method |-> "POST", url |-> NoStr,
    body |-> Body("object", "array", <<Item(UrlA1, NameA)>>, c, ph)] :
     c \in ClampInputs, ph \in ClampInputs}

\* POST up to the construction of the two limiters, for these requests
ClampInit == InitOf(ClampRequests)

ClampNext == POST_Begin

ClampSpec == ClampInit /\ [][ClampNext]_vars

\* no request: the page that shows the carousel is open in a browser
NoRequest == [method |-> "none", url |-> NoStr, body |-> EmptyBody]

\* the carousel after its first render, for every choice of the props and
\* every length of the feedback list
CarouselInit ==
  /\ HandlersIdle({NoRequest})
  /\ ui \in {Mount(a, r, n) : a \in BOOLEAN, r \in BOOLEAN, n \in 0..MaxSlides}

CarouselNext ==
  \/ \E dir \in {"prev", "next"} : ArrowClick(dir)
  \/ \E dir \in {"prev", "next"} : ArrowKey(dir)
  \/ DragStart
  \/ \E dir \in {"prev", "next", "none"} : DragEnd(dir)
  \/ MouseEnter
  \/ MouseLeave
  \/ \E b \in BOOLEAN : Intersect(b)
  \/ Tick
  \/ \E n \in 0..MaxSlides : FeedbackUpdate(n)

CarouselSpec == CarouselInit /\ [][CarouselNext]_vars


(***************************************************************************)
(* Properties                                                              *)
(***************************************************************************)
IsPost == req.method = "POST"

\* the handler returned the streamed archive of route.js 332
ArchiveReturned == IsPost /\ pc = "done" /\ response.body = "zip"

ImageEntries == {e \in zip : e.kind \in {"real", "placeholder"}}

PlaceholderEntries == {e \in zip : e.kind = "placeholder"}

DiagnosticEntries == {e \in zip : e.kind = "diagnostic"}

\* the items whose fetch failed all retries and proxies
FailedItems == {i \in 1..N : outcome[i].settled /\ ~outcome[i].ok}

\* the jobs that hold a slot of the global limiter
GHolders == {i \in 1..N : gph[i] \in {"admitted", "running", "settled"}}

\* the jobs of host h that hold a slot of the per-host limiter
HHolders(h) ==
  {i \in 1..N : hph[i] \in {"admitted", "running", "settled"} /\ HostOf(Files[i].url) = h}

\* the jobs of host h whose function has started and has not settled
HRunning(h) == {i \in 1..N : hph[i] = "running" /\ HostOf(Files[i].url) = h}

HostsOfRequest == {HostOf(Files[i].url) : i \in 1..N}

\* C1: the archive POST returns holds exactly N image entries, one per item
\* of the files list, and at most one diagnostic entry.
C1_OneEntryPerItem ==
  ArchiveReturned =>
    /\ Cardinality(ImageEntries) = N
    /\ \A i \in 1..N : \E e \in ImageEntries : e.item = i
    /\ Cardinality(DiagnosticEntries) <= 1

\* C2: the names of the entries of the archive, the diagnostic entry
\* included, are pairwise distinct when compared without regard to case.
C2_NamesDistinctIgnoringCase ==
  \A e1 \in zip : \A e2 \in zip :
    e1 # e2 => toLowerCase(e1.name) # toLowerCase(e2.name)

\* C3: for every host, the unknown bucket included, the jobs of that host
\* that the per-host limiter has started and that have not settled number at
\* most maxPerHost, and so do the slots the limiter counts for the host.
C3_PerHostCap ==
  pc = "awaitAll" =>
    \A h \in HostsOfRequest \cup {HostUnknown} :
      /\ Cardinality(HRunning(h)) <= hlimit
      /\ Cardinality(HHolders(h)) <= hlimit
      /\ MapGet(hActive, h) = Cardinality(HHolders(h))

\* a host is saturated while another job of it waits in the queue
C3_Witness ==
  \E h \in HostsOfRequest :
    /\ Cardinality(HRunning(h)) = hlimit
    /\ \E k \in 1..Len(hQueue) : hQueue[k].host = h

\* C4: the jobs the global limiter has started and that have not settled
\* number at most its limit; every fetchWithRetries call in flight belongs to
\* a job that holds a global slot and a slot of its host; so at most limit
\* fetches are in flight.
C4_GlobalCapAndBothSlots ==
  pc = "awaitAll" =>
    /\ Cardinality(GHolders) <= glimit
    /\ gActive = Cardinality(GHolders)
    /\ \A i \in fetching :
         /\ i \in GHolders
         /\ i \in HHolders(HostOf(Files[i].url))
    /\ Cardinality(fetching) <= glimit

\* the global limiter is full with fetches in flight while a job waits
C4_Witness ==
  /\ pc = "awaitAll"
  /\ Cardinality(fetching) = glimit
  /\ Len(gQ) > 0


\* every job of the request has been released by both limiters
AllJobsSettled ==
  /\ resolvedJobs = N
  /\ \A i \in 1..N :
       /\ gph[i] = "released"
       /\ Files[i].url # NoStr => hph[i] = "released"
  /\ gActive = 0 /\ gQ = <<>> /\ hQueue = <<>> /\ fetching = {}

\* C5: once the jobs have been submitted, every job of the global limiter
\* and every job of the per-host limiter is started and settles, whether
\* the jobs before it returned or threw, and the Promise.all resolves (checked
\* under FairSpec: every fetch ends, every ready reaction runs).
C5_NoPermanentStall == (pc = "awaitAll") ~> (pc = "done" /\ AllJobsSettled)

\* jobs wait in both limiters after an earlier job has thrown
C5_Witness ==
  /\ pc = "awaitAll"
  /\ Len(gQ) > 0
  /\ Len(hQueue) > 0
  /\ FailedItems # {}

\* the lines of the diagnostic entry that name item i with its URL
LinesOf(d, i) ==
  {k \in 1..Len(d.lines) : d.lines[k].number = i /\ d.lines[k].url = Files[i].url}

\* C6: an item whose fetch failed has a placeholder entry and exactly one
\* line of the diagnostic text with its 1-based index and its URL; the
\* diagnostic entry is added only after every item has settled, is there
\* exactly when a failure was recorded, and has as many lines as the archive
\* has placeholder entries.
C6_FailuresReported ==
  /\ DiagnosticEntries # {} => \A i \in 1..N : gph[i] = "released"
  /\ ArchiveReturned =>
       /\ DiagnosticEntries # {} <=> Len(failures) > 0
       /\ \A i \in FailedItems :
            /\ \E e \in PlaceholderEntries : e.item = i
            /\ \E d \in DiagnosticEntries : Cardinality(LinesOf(d, i)) = 1
       /\ \A d \in DiagnosticEntries : Len(d.lines) = Cardinality(PlaceholderEntries)

\* C7: a POST with a non-empty files list never rejects and never answers
\* with anything but a 200 archive; when the try block threw, the archive is
\* the one carrying the error note.
C7_AlwaysAnArchive ==
  (IsPost /\ N >= 1) =>
    /\ response # Rejected
    /\ pc = "done" =>
         /\ response.status = 200
         /\ response.contentType = "application/zip"
         /\ ~jszip[1] => response.body = "error zip"

IsGet == req.method \in {"GET", "GET_strict"}

\* C8: a GET with a url never lets an exception escape; best effort: when
\* every try failed the answer is 200 with the placeholder PNG as image/png;
\* strict: a non-success upstream status is passed through unchanged and a
\* network error gives 502.
C8_GetDegrades ==
  /\ IsGet => response # Rejected
  /\ (req.method = "GET" /\ pc = "done" /\ fw.phase = "threw") =>
       response = Respond(200, "image/png", "FALLBACK_PNG")
  /\ (req.method = "GET_strict" /\ pc = "done" /\ strict.upstream.kind = "status") =>
       response.status = strict.upstream.status
  /\ (req.method = "GET_strict" /\ pc = "done" /\ strict.upstream.kind = "network") =>
       response.status = 502

\* the body of the request gives no item: not JSON, no files, files not an
\* array, or an empty array
BodyWithoutItems ==
  \/ req.body.json # "object"
  \/ req.body.filesKind # "array"
  \/ Len(req.body.files) = 0

\* C9: a POST whose body gives no item is answered with 400 and nothing else
\* happens: no limiter is created, no job is scheduled, no fetch is made and
\* no archive is produced.
C9_NoFiles400 ==
  (IsPost /\ BodyWithoutItems) =>
    /\ response.status \in {0, 400}
    /\ pc = "done" => response = Respond(400, "text/plain", "No files")
    /\ pc \in {"start", "done"}
    /\ limiters = 0
    /\ fetchCount = 0 /\ fetching = {}
    /\ mq = <<>>
    /\ zip = {}

\* a body whose files is not an array has been answered
C9_Witness ==
  /\ IsPost /\ req.body.filesKind = "string"
  /\ pc = "done" /\ response.status = 400

IsClientError(st) == st >= 400 /\ st <= 499

\* C10 as stated: in both GET variants a missing url is answered with 400
\* before any fetch, and it is the only input answered with a client error.
C10_OnlyMissingUrlIsClientError ==
  IsGet =>
    /\ MissingUrl(req.url) => (fw.tries = 0 /\ strict.fetches = 0)
    /\ pc = "done" => (IsClientError(response.status) <=> MissingUrl(req.url))

\* C10 as amended: in both GET variants a missing url is answered with 400
\* before any fetch; in the best-effort variant nothing else is answered
\* with a client error; the strict variant answers with a client error also
\* when the upstream answered with that 4xx status.
C10_MissingUrl400 ==
  IsGet =>
    /\ req.url = NoStr =>
         /\ fw.tries = 0 /\ strict.fetches = 0
         /\ pc \in {"start", "done"}
         /\ pc = "done" => response = Respond(400, "text/plain", "Missing url")
    /\ (req.method = "GET" /\ pc = "done" /\ IsClientError(response.status)) =>
         req.url = NoStr
    /\ (req.method = "GET_strict" /\ pc = "done" /\ IsClientError(response.status)
          /\ req.url # NoStr) =>
         /\ strict.upstream.kind = "status"
         /\ strict.upstream.status = response.status

\* a GET without url has been answered
C10_Witness ==
  /\ IsGet /\ req.url = NoStr
  /\ pc = "done" /\ response.status = 400

\* the phases of a limiter's job once its function has been called
Started == {"running", "settled", "released"}

\* the items the job hands to the per-host limiter: those with a url
HasUrl(i) == Files[i].url # NoStr

HasKnownExt(name) == \E x \in KnownExts : endsWith(toLowerCase(name), x)

\* C12: every image entry written to the archive, on the success path, the
\* failure path and the missing-url path, has a name that ends with a
\* recognized extension, whatever filename the caller supplied.
C12_RecognizedExtension ==
  \A e \in ImageEntries : HasKnownExt(e.name)

\* the name item i is given before ensureUnique: the sanitized provided name,
\* with the extension the path of the item adds when it has none
WithExt(i) ==
  LET provided == ProvidedName(i)
  IN IF HasExtRe(provided) THEN provided
     ELSE IF HasUrl(i) /\ outcome[i].settled /\ outcome[i].ok
          THEN provided \o inferExt(outcome[i].contentType, Files[i].url)
          ELSE provided \o ExtPng

\* for every item i that has an entry and every counter k up to the number
\* of entries, the lower-cased k-th name ensureUnique tries for the name of
\* item i: the name itself, then _2, _3, ...
CandidateTable ==
  UNION { The({ {<<i, k, toLowerCase(Candidate(w, k))>> : k \in 1..Cardinality(zip)} :
                  w \in {WithExt(i)} }) :
          i \in {e.item : e \in zip} }

\* the entry of the table for item i and counter k
At(T, i, k) == (CHOOSE t \in T : t[1] = i /\ t[2] = k)[3]

\* the entries written under the name of entry e, case ignored
SameNameEntries(T, e) == {x \in zip : At(T, x.item, 1) = At(T, e.item, 1)}

\* the lower-cased names ensureUnique tries first for the name of entry e:
\* the name itself, then _2, _3, ... up to _m
FirstCandidates(T, e, m) == {At(T, e.item, k) : k \in 1..m}

\* C13 as stated: while the jobs run, the entries written under one name are
\* named with the name itself, _2, _3, ..., _m, where m is their number: the
\* k-th of them has the suffix _k.
C13_KthEntryHasSuffixK ==
  pc = "awaitAll" =>
    \A T \in {CandidateTable} : \A e \in zip :
      toLowerCase(e.name) \in FirstCandidates(T, e, Cardinality(SameNameEntries(T, e)))

\* the candidate counters whose name, case ignored, is the name of entry e
SuffixesOf(T, e) ==
  {k \in 1..Cardinality(zip) : toLowerCase(e.name) = At(T, e.item, k)}

\* no entry written under another name has a name ensureUnique would try for
\* the name of entry e
NameNotSquatted(T, e) ==
  \A x \in zip \ SameNameEntries(T, e) :
    toLowerCase(x.name) \notin FirstCandidates(T, e, Cardinality(zip))

\* C13 as amended: an entry is named with the first of the name itself, _2,
\* _3, ... that no entry of the archive has, case ignored; the k-th entry
\* written under a name has the suffix _k when no entry written under
\* another name has one of these names.
C13_FirstFreeSuffix ==
  pc = "awaitAll" =>
    \A T \in {CandidateTable} : \A e \in zip :
      /\ \E k \in SuffixesOf(T, e) :
           /\ e.name = Candidate(WithExt(e.item), k)
           /\ \A j \in 1..(k - 1) :
                \E x \in zip \ {e} : toLowerCase(x.name) = At(T, e.item, j)
      /\ NameNotSquatted(T, e) =>
           toLowerCase(e.name)
             \in FirstCandidates(T, e, Cardinality(SameNameEntries(T, e)))

\* three entries were written under one name: the third has the suffix _3
C13_Witness ==
  /\ pc = "awaitAll"
  /\ \E e \in zip :
       /\ Cardinality(SameNameEntries(CandidateTable, e)) = 3
       /\ e.name = Candidate(WithExt(e.item), 3)

\* item i supplies a filename, and the sanitized filename has no extension
ExplicitNameWithoutExt(i) ==
  Files[i].filename # NoStr /\ ~HasExtRe(sanitize(Files[i].filename))

\* the content type item i was fetched with; none when the fetch failed
ContentTypeOf(i) ==
  IF outcome[i].settled /\ outcome[i].ok THEN outcome[i].contentType ELSE NoStr

\* name is base, or base with a collision suffix _2, _3, ... before its
\* extension
IsBaseOrSuffixed(name, base) ==
  \E k \in 1..(MaxItems + 1) : name = Candidate(base, k)

\* C14 as stated: the entry of an item with a url and an explicit filename
\* without extension is named with the sanitized filename, the extension
\* inferred from the content type or else the URL, and an optional collision
\* suffix, whether its fetch succeeded or failed.
C14_SanitizedPlusInferred ==
  pc = "awaitAll" =>
    \A e \in zip :
      (HasUrl(e.item) /\ ExplicitNameWithoutExt(e.item)) =>
        IsBaseOrSuffixed(e.name,
                         sanitize(Files[e.item].filename)
                           \o inferExt(ContentTypeOf(e.item), Files[e.item].url))

\* C14 as amended: the entry of an item with an explicit filename without
\* extension is named with the sanitized filename, then the inferred
\* extension when the fetch succeeded and .png when it failed or the item has
\* no url, with an optional collision suffix before the extension.
C14_SanitizedPlusPathExt ==
  pc = "awaitAll" =>
    \A e \in zip :
      ExplicitNameWithoutExt(e.item) =>
        IsBaseOrSuffixed(e.name,
                         sanitize(Files[e.item].filename)
                           \o (IF e.kind = "real"
                               THEN inferExt(outcome[e.item].contentType, Files[e.item].url)
                               ELSE ExtPng))

\* two items with the same explicit filename without extension: one was
\* fetched, the other failed and got the collision suffix
C14_Witness ==
  /\ pc = "awaitAll"
  /\ \E e1 \in zip : \E e2 \in zip :
       /\ e1.kind = "real" /\ e2.kind = "placeholder"
       /\ ExplicitNameWithoutExt(e1.item) /\ ExplicitNameWithoutExt(e2.item)
       /\ HasUrl(e2.item)
       /\ e1.name = sanitize(Files[e1.item].filename) \o ExtPng
       /\ e2.name = Candidate(e1.name, 2)

\* the tries of one outer attempt: the direct URL and every proxy
TriesPerAttempt == NumProxies + 1

\* the fetchOnce calls made when try k of outer attempt i has been started
TriesUpTo(i, k) == TriesPerAttempt * i + k + 1

\* the count of fetchOnce calls agrees with the position in the two loops:
\* every try before the current one was made once, in order
TriesInOrder(f) ==
  CASE f.phase = "idle" -> f.tries = 0
    [] f.phase \in {"fetch", "returned"} ->
         f.k \in 0..NumProxies /\ f.tries = TriesUpTo(f.i, f.k)
    [] f.phase = "sleep30" ->
         f.k \in 1..NumProxies /\ f.tries = TriesUpTo(f.i, f.k) - 1
    [] f.phase \in {"backoff", "threw"} ->
         f.k = NumProxies /\ f.tries = TriesUpTo(f.i, f.k)

\* a step that starts a try starts the direct try of the first attempt, the
\* next proxy after a failed try, or the direct try of the next attempt after
\* the last proxy failed
TryStartsInOrder ==
  fw'.tries # fw.tries =>
    /\ fw'.tries = fw.tries + 1
    /\ fw'.phase = "fetch"
    /\ \/ fw.phase = "idle" /\ fw'.i = 0 /\ fw'.k = 0
       \/ /\ fw.phase = "sleep30" /\ fw.last.kind # "ok"
          /\ fw'.i = fw.i /\ fw'.k = fw.k
       \/ /\ fw.phase = "backoff" /\ fw.last.kind # "ok" /\ fw.k = NumProxies
          /\ fw'.i = fw.i + 1 /\ fw'.k = 0

\* a step in which a try ends keeps the position: only a failed try moves on
TryEndsInOrder ==
  (fw.phase = "fetch" /\ fw'.phase # "fetch") =>
    /\ fw'.i = fw.i
    /\ IF fw'.last.kind = "ok"
       THEN fw'.phase = "returned" /\ fw'.k = fw.k
       ELSE \/ fw.k < NumProxies /\ fw'.phase = "sleep30" /\ fw'.k = fw.k + 1
            \/ fw.k = NumProxies /\ fw'.phase \in {"backoff", "threw"} /\ fw'.k = fw.k

\* C15: within one outer attempt the direct URL is tried first, then, only
\* after a failed try, the proxies in their listed order, each once; the first
\* successful try ends the call and no try is made after it.
C15_TriesInFixedOrder ==
  [][/\ TryStartsInOrder
     /\ TryEndsInOrder
     /\ TriesInOrder(fw')
     /\ fw.phase = "returned" => fw' = fw \/ fw'.tries = fw.tries]_vars

\* the third proxy of the second outer attempt answered
C15_Witness ==
  /\ fw.phase = "returned" /\ fw.i = 1 /\ fw.k = 3
  /\ fw.tries = TriesUpTo(1, 3)
  /\ fw.last.kind = "ok"

\* what fetchWithRetries has done stays within attempts outer attempts; it
\* goes on only while no try has succeeded, returns the result of a
\* successful try, and throws only after the last try of the last attempt
\* failed, having slept between the attempts and not after the last
RetriesBounded ==
  /\ fw.i \in 0..(Attempts - 1)
  /\ fw.tries <= Attempts * TriesPerAttempt
  /\ fw.backoffs <= Attempts - 1
  /\ fw.phase = "returned" <=> fw.last.kind = "ok"
  /\ fw.phase = "threw" =>
       /\ fw.tries = Attempts * TriesPerAttempt
       /\ fw.backoffs = Attempts - 1
  /\ fw.phase \in {"fetch", "sleep30"} => fw.backoffs = fw.i
  /\ fw.phase = "backoff" => fw.backoffs = fw.i + 1

\* C16: fetchWithRetries ends when every try ends (checked under FairSpec);
\* it makes at most attempts outer attempts and attempts x 6 tries, throws
\* exactly when every one of them has failed, and then has made attempts - 1
\* backoff waits.
C16_RetriesTerminate ==
  /\ []RetriesBounded
  /\ (req.method = "GET" /\ pc = "fetch")
       ~> (pc = "done" /\ fw.phase \in {"returned", "threw"})

\* every try of every attempt failed
C16_Witness ==
  /\ pc = "done" /\ fw.phase = "threw"
  /\ fw.tries = Attempts * TriesPerAttempt
  /\ fw.backoffs = Attempts - 1

\* C17: a proxy try that follows a try the timeout aborted, in the same outer
\* attempt, starts with a timeout that has not expired: its signal is not
\* aborted.
C17_IndependentTimeouts ==
  (fw.phase = "fetch" /\ fw.last = AbortResult /\ fw.k >= 1) => ~fw.aborted

\* the lower-cased names handed out when the items 1..i are named one after
\* the other in the order of the list
RECURSIVE InputOrderUsed(_)
InputOrderUsed(i) ==
  IF i = 0 THEN {}
  ELSE InputOrderUsed(i - 1)
         \cup {toLowerCase(ensureUnique(WithExt(i), InputOrderUsed(i - 1)))}

\* the name of item i when the items are named in the order of the list, as
\* they are when the fetches complete in that order
InputOrderName(i) == ensureUnique(WithExt(i), InputOrderUsed(i - 1))

\* every item of the list has a url: each one is fetched
AllFetched == \A i \in 1..N : HasUrl(i)

\* C18: for a list of items that are all fetched and given outcomes of the
\* fetches, each entry has the name its item gets when the fetches complete
\* in the order of the list, in whatever order they did complete.
C18_NamesFixedByInput ==
  (pc = "awaitAll" /\ AllFetched /\ resolvedJobs = N) =>
    \A e \in zip : e.name = InputOrderName(e.item)

\* C19: the per-host limiter keeps a job waiting only while its own host is
\* at the cap: a job of another host, submitted later, is not held back by
\* it and starts its fetch first (C19_Witness is such a state).
C19_OnlySaturatedHostsWait ==
  pc = "awaitAll" =>
    \A k \in 1..Len(hQueue) : MapGet(hActive, hQueue[k].host) = hlimit

\* a later-submitted job of another host is fetching while an earlier job
\* still waits for its saturated host
C19_Witness ==
  /\ pc = "awaitAll"
  /\ \E k \in 1..Len(hQueue) : \E j \in fetching :
       /\ hQueue[k].i < j
       /\ HostOf(Files[j].url) # hQueue[k].host
       /\ MapGet(hActive, hQueue[k].host) = hlimit
       /\ hph[hQueue[k].i] = "queued" /\ hph[j] = "running"

\* C20: the limit POST gives the global limiter is an integer in 2..48 and
\* the limit it gives the per-host limiter an integer in 1..8, whatever
\* concurrency and perHostConcurrency are; missing values give 12 and 3.
C20_CapacitiesInRange ==
  limiters > 0 =>
    /\ glimit \in 2..48
    /\ hlimit \in 1..8
    /\ req.body.concurrency.kind = "absent" => glimit = 12
    /\ req.body.perHostConcurrency.kind = "absent" => hlimit = 3

\* the limiters were created for a concurrency of 2^31, which wraps to a
\* negative integer, and a fractional perHostConcurrency above the range
C20_Witness ==
  /\ limiters = 2
  /\ req.body.concurrency = Big(2^15, 0) /\ glimit = 2
  /\ req.body.perHostConcurrency = Frac(FALSE, 97, 2) /\ hlimit = 8

\* C21: once the generation of the archive has started the writer of the
\* output stream is eventually closed, whether the generator ends or reports
\* an error, and no chunk is written to the writer once it is closed.
C21_WriterEventuallyClosed ==
  /\ [](stream.late = 0)
  /\ [](stream.gen \in {"ended", "errored"} => stream.writer = "closed")
  /\ (stream.gen = "running") ~> (stream.writer = "closed")

\* the generator reported an error after a chunk and the writer is closed
C21_Witness ==
  /\ stream.gen = "errored" /\ stream.chunks = MaxChunks
  /\ stream.writer = "closed" /\ stream.closes = 1

\* the job of item i, which has no url, runs in this step
MissingUrlJobRuns(i) == ~HasUrl(i) /\ gph[i] = "admitted" /\ gph'[i] = "settled"

\* C22 as stated: an item without url is handled at once: it is never the
\* subject of a fetch or of the per-host limiter, and it never waits for the
\* fetches of other items: it is never in the queue of the global limiter
\* when no callback is left to run before a fetch in flight settles.
C22_HandledWithoutWaiting ==
  \A i \in 1..N :
    ~HasUrl(i) =>
      /\ hph[i] = "none" /\ i \notin fetching /\ outcome[i] = NoOutcome
      /\ (gph[i] = "queued" /\ mq = <<>>) => fetching = {}

\* C22: an item without url never reaches the per-host limiter or a fetch,
\* and the step in which the global limiter runs its job writes a placeholder
\* under the item's default name (the sanitized filename or image_<n>, with
\* .png when it has no extension, with a collision suffix when taken) and
\* records a failure with the url "(missing)", starting no fetch and leaving
\* the per-host limiter alone.
C22_PlaceholderWhenJobRuns ==
  /\ [](\A i \in 1..N :
          ~HasUrl(i) => hph[i] = "none" /\ i \notin fetching /\ outcome[i] = NoOutcome)
  /\ [][\A i \in 1..N :
          MissingUrlJobRuns(i) =>
            /\ \E e \in zip' \ zip :
                 /\ zip' = zip \cup {e}
                 /\ e.item = i /\ e.kind = "placeholder"
                 /\ IsBaseOrSuffixed(e.name, WithExt(i))
                 /\ toLowerCase(e.name) \notin used
                 /\ used' = used \cup {toLowerCase(e.name)}
            /\ failures' = Append(failures, [index |-> i - 1, url |-> StrMissing])
            /\ fetchCount' = fetchCount /\ fetching' = fetching
            /\ hActive' = hActive /\ hQueue' = hQueue /\ hph' = hph]_vars

\* the third item has no url and its placeholder is written after it waited
\* in the queue of the global limiter behind two items that are fetched
C22_Witness ==
  /\ pc = "awaitAll" /\ N = 3 /\ glimit = 2
  /\ HasUrl(1) /\ HasUrl(2) /\ ~HasUrl(3)
  /\ gph[3] = "settled"
  /\ \E e \in PlaceholderEntries : e.item = 3
  /\ \E k \in 1..Len(failures) : failures[k] = [index |-> 2, url |-> StrMissing]

\* C24: between callbacks the limiters are work conserving: the global
\* limiter has a job in its queue only when its active count equals its
\* limit, and the per-host limiter has no job in its queue whose host has
\* fewer than maxPerHost active jobs.
C24_WorkConserving ==
  pc = "awaitAll" =>
    /\ Len(gQ) > 0 => gActive = glimit
    /\ ~\E k \in 1..Len(hQueue) : MapGet(hActive, hQueue[k].host) < hlimit

\* both limiters keep a job waiting: the global limiter is full and a host
\* is at its cap
C24_Witness ==
  /\ pc = "awaitAll"
  /\ Len(gQ) > 0 /\ gActive = glimit
  /\ Len(hQueue) > 0 /\ MapGet(hActive, hQueue[1].host) = hlimit
  /\ fetching # {}

\* C25: when fetchWithRetries has returned or thrown, no timer it armed is
\* pending.
C25_NoTimerLeftPending ==
  fw.phase \in {"returned", "threw"} => (fw.timer # "pending" /\ fw.leaked = 0)

\* C23: once the user has clicked an arrow, pressed an arrow key or started
\* a drag while the carousel had more than one slide, autoplay is off for
\* good: the state autoplay is false, no interval is armed and no slide
\* advance is driven by the timer, whatever hover, visibility and feedback
\* events follow.
C23_AutoplayOffForGood ==
  (ui.mounted /\ ui.interacted) =>
    /\ ~ui.autoplay
    /\ ui.interval = NoInterval
    /\ ui.last # "tick"

\* after an interaction the pointer has left a visible carousel of several
\* slides that did autoplay: the timer would restart if autoplay were on
C23_Witness ==
  /\ ui.mounted /\ ~ui.crashed /\ ui.interacted /\ ui.last = "leave"
  /\ ui.autoplayInitial /\ ~ui.reducedMotion
  /\ ui.total > 1 /\ ui.visible /\ ~ui.hovering

\* C26: whenever the carousel renders a slide (total > 0) the active index
\* is an index of the list: 0 <= active < total.
C26_ActiveInRange ==
  (ui.mounted /\ ui.total > 0) => ui.active \in 0..(ui.total - 1)

====
